---- MODULE Spec2Model ----
(***************************************************************************)
(* CHA2DS2-VASc score service (src/main.py).                               *)
(*                                                                         *)
(* One endpoint, POST /calculate.  The framework parses the form fields    *)
(* into a ChadsVascFormInput (pydantic validation, lines 23-67) and, when  *)
(* the record conforms, calls calculate_cha2ds2_vasc (lines 86-113), which *)
(* binds the local age_points (96-101), then the local score (104-112) and *)
(* returns ChadsVascFormOutput(score=score) (113).  A form that does not   *)
(* conform is answered 422 and the handler is never called.                *)
(*                                                                         *)
(* Every request in flight has its own form, validated record, locals and  *)
(* response: the variables are functions from the requests in flight.      *)
(* An optional value (a local not yet bound, a response not yet sent) is a *)
(* sequence of length 0 or 1.                                              *)
(***************************************************************************)
EXTENDS Integers, Sequences, FiniteSets

VARIABLES
    pc,          \* pc[p]: "idle", "L96", "L104", "L113", "done"
    form,        \* form[p]: <<>> or <<the form fields as submitted>>
    data,        \* data[p]: <<>> or <<the validated ChadsVascFormInput>>
    age_points,  \* age_points[p]: <<>> (unbound) or <<n>>
    score,       \* score[p]: <<>> (unbound) or <<n>>
    response     \* response[p]: <<>>, <<422>> or <<200, score>>

vars == <<pc, form, data, age_points, score, response>>

----------------------------------------------------------------------------
(* Bounds of the model *)

\* How far beyond [ge, le] the submitted integer ages range.
AgeSlack == 1

\* Requests in flight at once in SpecConc.
NumProcs == 3

----------------------------------------------------------------------------
(* Program constants *)

AgeGe == 1
AgeLe == 150
HttpOk == 200
HttpUnprocessable == 422

----------------------------------------------------------------------------
(* Form fields as submitted: text, or missing *)

Missing == "<missing>"

\* A submitted age: text denoting the integer val, other text, or no field.
IntText(n) == [kind |-> "int", val |-> n]
OtherText == [kind |-> "text", val |-> 0]
NoAge == [kind |-> "missing", val |-> 0]

BoolFields ==
    {"congestive_heart_failure", "hypertension", "stroke_tia",
     "vascular_disease", "diabetes"}

SexLiterals == {"male", "female", "intersex"}

MkForm(a, s, chf, h, st, v, d) ==
    [age |-> a, biological_sex |-> s, congestive_heart_failure |-> chf,
     hypertension |-> h, stroke_tia |-> st, vascular_disease |-> v,
     diabetes |-> d]

----------------------------------------------------------------------------
(* ChadsVascFormInput: validation of the form *)

\* AgeOk with ge=0 in place of ge=1.
AgeOkGeZero(tok) == tok.kind = "int" /\ tok.val >= 0 /\ tok.val <= AgeLe

\* age: int, ge=1, le=150, required
AgeOk(tok) == tok.kind = "int" /\ tok.val >= AgeGe /\ tok.val <= AgeLe

\* SexOk with a plain str field in place of the Literal: any text passes.
SexOkAnyText(tok) == tok # Missing

\* biological_sex: Literal["male", "female", "intersex"], required
SexOk(tok) == tok \in SexLiterals

\* BoolOk with the fields left untyped: any text passes.
BoolOkAnyText(tok) == TRUE

\* a bool field: text that reads as a boolean, or missing (the default applies)
BoolOk(tok) == tok \in {"true", "false", Missing}

\* FieldDefault with default=True.
FieldDefaultTrue == TRUE

\* default=False of the five bool fields
FieldDefault == FALSE

BoolValue(tok) == IF tok = Missing THEN FieldDefault ELSE tok = "true"

FormValid(f) ==
    /\ AgeOk(f.age)
    /\ SexOk(f.biological_sex)
    /\ \A b \in BoolFields : BoolOk(f[b])

\* The validated record built from a conforming form.
ChadsVascFormInput(f) ==
    [age |-> f.age.val,
     biological_sex |-> f.biological_sex,
     congestive_heart_failure |-> BoolValue(f.congestive_heart_failure),
     hypertension |-> BoolValue(f.hypertension),
     stroke_tia |-> BoolValue(f.stroke_tia),
     vascular_disease |-> BoolValue(f.vascular_disease),
     diabetes |-> BoolValue(f.diabetes)]

----------------------------------------------------------------------------
(* calculate_cha2ds2_vasc: the two expressions of the handler *)

\* AgePoints with the first test written "age > 75": 75 falls in no tier.
AgePointsGap(age) ==
    IF age > 75 THEN 2
    ELSE IF 65 <= age /\ age < 75 THEN 1
    ELSE 0

\* AgePoints as the flat variant: 1 point from 75, no middle tier.
AgePointsFlat(age) == IF age >= 75 THEN 1 ELSE 0

\* lines 96-101
AgePoints(age) ==
    IF age >= 75 THEN 2
    ELSE IF 65 <= age /\ age < 75 THEN 1
    ELSE 0

\* Total with the sex test written as "not male".
TotalNotMale(d, ap) ==
    ap
    + (IF d.biological_sex # "male" THEN 1 ELSE 0)
    + (IF d.congestive_heart_failure THEN 1 ELSE 0)
    + (IF d.hypertension THEN 1 ELSE 0)
    + (IF d.stroke_tia THEN 2 ELSE 0)
    + (IF d.vascular_disease THEN 1 ELSE 0)
    + (IF d.diabetes THEN 1 ELSE 0)

\* Total with stroke/TIA weighted 1.
TotalStrokeOne(d, ap) ==
    ap
    + (IF d.biological_sex = "female" THEN 1 ELSE 0)
    + (IF d.congestive_heart_failure THEN 1 ELSE 0)
    + (IF d.hypertension THEN 1 ELSE 0)
    + (IF d.stroke_tia THEN 1 ELSE 0)
    + (IF d.vascular_disease THEN 1 ELSE 0)
    + (IF d.diabetes THEN 1 ELSE 0)

\* lines 104-112
Total(d, ap) ==
    ap
    + (IF d.biological_sex = "female" THEN 1 ELSE 0)
    + (IF d.congestive_heart_failure THEN 1 ELSE 0)
    + (IF d.hypertension THEN 1 ELSE 0)
    + (IF d.stroke_tia THEN 2 ELSE 0)
    + (IF d.vascular_disease THEN 1 ELSE 0)
    + (IF d.diabetes THEN 1 ELSE 0)

----------------------------------------------------------------------------
(* Steps of one request p *)

InitOver(P) ==
    /\ pc = [p \in P |-> "idle"]
    /\ form = [p \in P |-> <<>>]
    /\ data = [p \in P |-> <<>>]
    /\ age_points = [p \in P |-> <<>>]
    /\ score = [p \in P |-> <<>>]
    /\ response = [p \in P |-> <<>>]

\* POST /calculate with form f: validation, then either 422 or the call.
Post(p, f) ==
    /\ pc[p] = "idle"
    /\ form' = [form EXCEPT ![p] = <<f>>]
    /\ IF FormValid(f)
       THEN /\ data' = [data EXCEPT ![p] = <<ChadsVascFormInput(f)>>]
            /\ pc' = [pc EXCEPT ![p] = "L96"]
            /\ UNCHANGED response
       ELSE /\ response' = [response EXCEPT ![p] = <<HttpUnprocessable>>]
            /\ pc' = [pc EXCEPT ![p] = "done"]
            /\ UNCHANGED data
    /\ UNCHANGED <<age_points, score>>

\* AgePointsStep with age_points a module-level global: one cell for all
\* requests, so binding it rebinds it for every request.
AgePointsStepShared(p) ==
    /\ pc[p] = "L96"
    /\ age_points' = [q \in DOMAIN age_points |-> <<AgePoints(data[p][1].age)>>]
    /\ pc' = [pc EXCEPT ![p] = "L104"]
    /\ UNCHANGED <<form, data, score, response>>

\* lines 96-101: bind the local age_points
AgePointsStep(p) ==
    /\ pc[p] = "L96"
    /\ age_points' = [age_points EXCEPT ![p] = <<AgePoints(data[p][1].age)>>]
    /\ pc' = [pc EXCEPT ![p] = "L104"]
    /\ UNCHANGED <<form, data, score, response>>

\* ScoreStep with score a module-level running total ("score += ..."): the
\* points are added to whatever an earlier request left there.
ScoreStepRunningTotal(p) ==
    /\ pc[p] = "L104"
    /\ LET left == {q \in DOMAIN score : score[q] # <<>>}
           before == IF left = {} THEN 0 ELSE score[CHOOSE q \in left : TRUE][1]
       IN  score' = [q \in DOMAIN score |->
                        <<before + Total(data[p][1], age_points[p][1])>>]
    /\ pc' = [pc EXCEPT ![p] = "L113"]
    /\ UNCHANGED <<form, data, age_points, response>>

\* lines 104-112: bind the local score
ScoreStep(p) ==
    /\ pc[p] = "L104"
    /\ score' = [score EXCEPT ![p] = <<Total(data[p][1], age_points[p][1])>>]
    /\ pc' = [pc EXCEPT ![p] = "L113"]
    /\ UNCHANGED <<form, data, age_points, response>>

\* line 113: return ChadsVascFormOutput(score=score), sent as 200
Return(p) ==
    /\ pc[p] = "L113"
    /\ response' = [response EXCEPT ![p] = <<HttpOk, score[p][1]>>]
    /\ pc' = [pc EXCEPT ![p] = "done"]
    /\ UNCHANGED <<form, data, age_points, score>>

\* The request is over: its record, locals and response are dropped.
Close(p) ==
    /\ pc[p] = "done"
    /\ pc' = [pc EXCEPT ![p] = "idle"]
    /\ form' = [form EXCEPT ![p] = <<>>]
    /\ data' = [data EXCEPT ![p] = <<>>]
    /\ age_points' = [age_points EXCEPT ![p] = <<>>]
    /\ score' = [score EXCEPT ![p] = <<>>]
    /\ response' = [response EXCEPT ![p] = <<>>]

----------------------------------------------------------------------------------------------------------------------------------------
(* Spec: one request at a time.  The client submits any form made of: an   *)
(* integer age in [ge-slack, le+slack], an age that is no integer, or no   *)
(* age; a sex among the three literals, another text, or none; for each    *)
(* bool field a boolean text, another text, or nothing.                    *)

AgeTexts ==
    {IntText(n) : n \in (AgeGe - AgeSlack)..(AgeLe + AgeSlack)}
        \cup {OtherText, NoAge}

SexTexts == SexLiterals \cup {"other", "Female", Missing}

BoolTexts == {"true", "false", "maybe", Missing}

Init == InitOver({1})

SubmitAny ==
    /\ pc[1] = "idle"
    /\ \E a \in AgeTexts, s \in SexTexts :
         \E chf \in BoolTexts, h \in BoolTexts, st \in BoolTexts,
            v \in BoolTexts, d \in BoolTexts :
             Post(1, MkForm(a, s, chf, h, st, v, d))

Next ==
    \/ SubmitAny
    \/ AgePointsStep(1)
    \/ ScoreStep(1)
    \/ Return(1)
    \/ Close(1)

Spec == Init /\ [][Next]_vars

----------------------------------------------------------------------------
(* SpecPair: a client submits a conforming form as request 1 and a related *)
(* form as request 2: the same form, the form with its omitted fields sent *)
(* as false, with one more factor true, or with a greater age.  The two    *)
(* requests run interleaved and both responses are kept.                   *)

PairAges == {IntText(n) : n \in {1, 64, 65, 74, 75, 150}}

\* f with every omitted bool field sent explicitly as false.
ExplicitFalse(f) ==
    [f EXCEPT !.congestive_heart_failure = IF @ = Missing THEN "false" ELSE @,
              !.hypertension = IF @ = Missing THEN "false" ELSE @,
              !.stroke_tia = IF @ = Missing THEN "false" ELSE @,
              !.vascular_disease = IF @ = Missing THEN "false" ELSE @,
              !.diabetes = IF @ = Missing THEN "false" ELSE @]

Related(f) ==
    {f, ExplicitFalse(f)}
        \cup {[f EXCEPT ![b] = "true"] : b \in {c \in BoolFields : f[c] # "true"}}
        \cup {[f EXCEPT !.age = a] : a \in {x \in PairAges : x.val >= f.age.val}}

InitPair == InitOver({1, 2})

SubmitFirst ==
    /\ pc[1] = "idle"
    /\ \E a \in PairAges, s \in SexLiterals :
         \E chf \in BoolTexts \ {"maybe"}, h \in BoolTexts \ {"maybe"},
            st \in BoolTexts \ {"maybe"}, v \in BoolTexts \ {"maybe"},
            d \in BoolTexts \ {"maybe"} :
             Post(1, MkForm(a, s, chf, h, st, v, d))

SubmitRelated ==
    /\ pc[2] = "idle"
    /\ form[1] # <<>>
    /\ \E g \in Related(form[1][1]) : Post(2, g)

NextPair ==
    \/ SubmitFirst
    \/ SubmitRelated
    \/ \E p \in {1, 2} :
         \/ AgePointsStep(p)
         \/ ScoreStep(p)
         \/ Return(p)

SpecPair == InitPair /\ [][NextPair]_vars

----------------------------------------------------------------------------
(* SpecConc: NumProcs requests in flight at once, their steps interleaved  *)
(* in every order; a request that is over makes room for the next one.     *)

Scenario80 == MkForm(IntText(80), "female", "true", "false", "true", "false", "false")
Scenario30 == MkForm(IntText(30), "male", "false", "false", "false", "false", "false")
Scenario70 == MkForm(IntText(70), "intersex", "false", "false", "false", "false", "true")
ScenarioMax == MkForm(IntText(75), "female", "true", "true", "true", "true", "true")
Scenario65 == MkForm(IntText(65), "male", Missing, Missing, Missing, Missing, Missing)
Scenario151 == MkForm(IntText(151), "male", "false", "true", "false", "false", "false")
ScenarioOther == MkForm(IntText(64), "other", "false", "true", "false", "false", "false")

ConcForms ==
    {Scenario80, Scenario30, Scenario70, ScenarioMax, Scenario65,
     Scenario151, ScenarioOther}

InitConc == InitOver(1..NumProcs)

SubmitConc(p) == \E f \in ConcForms : Post(p, f)

NextConc ==
    \E p \in 1..NumProcs :
        \/ SubmitConc(p)
        \/ AgePointsStep(p)
        \/ ScoreStep(p)
        \/ Return(p)
        \/ Close(p)

SpecConc == InitConc /\ [][NextConc]_vars

----------------------------------------------------------------------------
(* What the claims speak of, read off the submitted form *)

Requests == DOMAIN pc
Submitted(p) == form[p] # <<>>
Done(p) == pc[p] = "done"

\* The age is present, an integer, and within [1, 150].
AgeInRange(f) == f.age.kind = "int" /\ f.age.val \in 1..150
\* The age is present, an integer, and outside [1, 150].
AgeOutOfRange(f) == f.age.kind = "int" /\ f.age.val \notin 1..150
SexIsLiteral(f) == f.biological_sex \in {"male", "female", "intersex"}
Factor(f, b) == f[b] = "true"
AllFactors(f) == \A b \in BoolFields : Factor(f, b)
NoFactor(f) == \A b \in BoolFields : ~Factor(f, b)
Explicit(f) == \A b \in BoolFields : f[b] \in {"true", "false"}
ExplicitOrOmitted(f) == \A b \in BoolFields : f[b] \in {"true", "false", Missing}

Bit(b) == IF b THEN 1 ELSE 0
Tier(a) == IF a >= 75 THEN 2 ELSE IF a >= 65 THEN 1 ELSE 0
Weight(b) == IF b = "stroke_tia" THEN 2 ELSE 1

ExpectedScore(f) ==
    Tier(f.age.val)
    + Bit(f.biological_sex = "female")
    + Bit(Factor(f, "congestive_heart_failure"))
    + Bit(Factor(f, "hypertension"))
    + 2 * Bit(Factor(f, "stroke_tia"))
    + Bit(Factor(f, "vascular_disease"))
    + Bit(Factor(f, "diabetes"))

\* No score, partial or complete, exists for request p.
NothingScored(p) ==
    /\ data[p] = <<>>
    /\ age_points[p] = <<>>
    /\ score[p] = <<>>
    /\ Len(response[p]) < 2

----------------------------------------------------------------------------
(* C1: for every valid input (age in 1..150, sex one of the three          *)
(* literals, any explicit values of the five booleans) the returned score  *)
(* is agePoints + 1 if female + 1 if CHF + 1 if hypertension + 2 if        *)
(* stroke/TIA + 1 if vascular disease + 1 if diabetes, with agePoints 2    *)
(* from 75, 1 in [65,75), 0 below 65; male and intersex contribute 0.  The *)
(* spec's three scenarios return 6, 0 and 2.                               *)
C1_ScoreIsSum ==
    \A p \in Requests :
        Done(p) =>
            /\ (AgeInRange(form[p][1]) /\ SexIsLiteral(form[p][1]) /\ Explicit(form[p][1]))
                   => response[p] = <<200, ExpectedScore(form[p][1])>>
            /\ form[p][1] = Scenario80 => response[p] = <<200, 6>>
            /\ form[p][1] = Scenario30 => response[p] = <<200, 0>>
            /\ form[p][1] = Scenario70 => response[p] = <<200, 2>>

C1_Witness ==
    /\ Done(1)
    /\ form[1] = <<Scenario70>>
    /\ response[1] = <<200, 2>>

(* C2: the age tiers have their edges exactly at 65 and 75: for a male     *)
(* with no risk factor, age 64 scores 0, ages 65 and 74 score 1, age 75    *)
(* scores 2, and every age from 75 to 150 scores 2, never a flat 1.        *)
C2_AgeTiers ==
    \A p \in Requests :
        (/\ Done(p)
         /\ AgeInRange(form[p][1])
         /\ form[p][1].biological_sex = "male"
         /\ \A b \in BoolFields : form[p][1][b] = "false")
        => LET a == form[p][1].age.val
               s == response[p]
           IN  /\ Len(s) = 2 /\ s[1] = 200
               /\ a = 64 => s[2] = 0
               /\ a = 65 => s[2] = 1
               /\ a = 74 => s[2] = 1
               /\ a = 75 => s[2] = 2
               /\ a < 65 => s[2] = 0
               /\ (65 <= a /\ a < 75) => s[2] = 1
               /\ a >= 75 => s[2] = 2

C2_Witness ==
    /\ Done(1)
    /\ form[1] = <<MkForm(IntText(75), "male", "false", "false", "false", "false", "false")>>
    /\ response[1] = <<200, 2>>

(* C3: for every valid input the score is an integer in 0..9; it is 9      *)
(* exactly for age >= 75, female, all five factors true, and 0 exactly for *)
(* age < 65, not female, no factor true.                                   *)
C3_ScoreRange ==
    \A p \in Requests :
        (Done(p) /\ AgeInRange(form[p][1]) /\ SexIsLiteral(form[p][1])
            /\ ExplicitOrOmitted(form[p][1]))
        => LET f == form[p][1]
               s == response[p]
           IN  /\ Len(s) = 2 /\ s[1] = 200
               /\ s[2] \in 0..9
               /\ s[2] = 9 <=> (f.age.val >= 75 /\ f.biological_sex = "female"
                                   /\ AllFactors(f))
               /\ s[2] = 0 <=> (f.age.val < 65 /\ f.biological_sex # "female"
                                   /\ NoFactor(f))

C3_Witness ==
    /\ Done(1)
    /\ form[1][1].age.val >= 75
    /\ form[1][1].biological_sex = "female"
    /\ AllFactors(form[1][1])
    /\ response[1] = <<200, 9>>

(* C4: a request whose age is an integer outside [1,150] (0, 151) is       *)
(* answered 422 at once, whatever its other fields are, and no score,      *)
(* partial or complete, ever exists for it; ages 1 and 150 are accepted.   *)
C4_AgeOutOfRangeRejected ==
    \A p \in Requests :
        Submitted(p) =>
            /\ AgeOutOfRange(form[p][1])
                   => Done(p) /\ response[p] = <<422>> /\ NothingScored(p)
            /\ (/\ form[p][1].age \in {IntText(1), IntText(150)}
                /\ SexIsLiteral(form[p][1])
                /\ ExplicitOrOmitted(form[p][1]))
                   => /\ response[p] # <<422>>
                      /\ data[p] # <<>>
                      /\ Done(p) => response[p][1] = 200

C4_Witness ==
    /\ Done(1)
    /\ form[1] = <<MkForm(IntText(151), "female", "true", "true", "true", "true", "true")>>
    /\ response[1] = <<422>>
    /\ NothingScored(1)

(* C5: a request whose biologicalSex is a text other than the three        *)
(* literals ("other") is answered 422 and no score is computed, whatever   *)
(* the age and the booleans are.                                           *)
C5_SexNotLiteralRejected ==
    \A p \in Requests :
        (Submitted(p) /\ form[p][1].biological_sex # Missing
            /\ ~SexIsLiteral(form[p][1]))
        => Done(p) /\ response[p] = <<422>> /\ NothingScored(p)

C5_Witness ==
    /\ Done(1)
    /\ form[1] = <<MkForm(IntText(80), "other", "true", "false", "true", "false", "false")>>
    /\ response[1] = <<422>>
    /\ NothingScored(1)

(* C6, as claimed: every request ends in 200 with a score if and only if   *)
(* age is present and in [1,150] and biologicalSex is present and one of   *)
(* the three literals, and in 422 otherwise.                               *)
C6_AsClaimed ==
    \A p \in Requests :
        Done(p) =>
            IF AgeInRange(form[p][1]) /\ SexIsLiteral(form[p][1])
            THEN Len(response[p]) = 2 /\ response[p][1] = 200
            ELSE response[p] = <<422>>

(* C6, amended: every request ends in exactly one of two outcomes: 200     *)
(* with a score if and only if age is present and in [1,150],              *)
(* biologicalSex is present and one of the three literals, and every       *)
(* boolean field that is present reads as a boolean; 422 otherwise.  A     *)
(* request that passed validation is never answered 422, and one that      *)
(* failed it never has a score.                                            *)
C6_OutcomeIffConforming ==
    \A p \in Requests :
        /\ Done(p) =>
            IF AgeInRange(form[p][1]) /\ SexIsLiteral(form[p][1])
                /\ ExplicitOrOmitted(form[p][1])
            THEN Len(response[p]) = 2 /\ response[p][1] = 200
                    /\ response[p][2] = score[p][1]
            ELSE response[p] = <<422>> /\ NothingScored(p)
        /\ data[p] # <<>> => response[p] # <<422>>
        /\ (Submitted(p) /\ form[p][1].age = NoAge) => response[p] = <<422>>
        /\ (Submitted(p) /\ form[p][1].biological_sex = Missing)
               => response[p] = <<422>>

C6_Witness ==
    /\ Done(1)
    /\ form[1] = <<MkForm(IntText(80), "female", "maybe", "false", "true", "false", "false")>>
    /\ response[1] = <<422>>

(* C7: each of the five boolean fields is optional and defaults to false:  *)
(* a request that omits any of them is accepted and receives the score of  *)
(* the request that sends those fields explicitly as false, an omitted     *)
(* factor counting 0 points.                                               *)
C7_OmittedIsFalse ==
    /\ \A p \in Requests :
        (Done(p) /\ AgeInRange(form[p][1]) /\ SexIsLiteral(form[p][1])
            /\ ExplicitOrOmitted(form[p][1]))
        => response[p] = <<200, ExpectedScore(form[p][1])>>
    /\ \A p, q \in Requests :
        (Done(p) /\ Done(q) /\ form[q][1] = ExplicitFalse(form[p][1]))
        => response[p] = response[q]

C7_Witness ==
    /\ Done(1) /\ Done(2)
    /\ \A b \in BoolFields : form[1][1][b] = Missing
    /\ \A b \in BoolFields : form[2][1][b] = "false"
    /\ form[2][1] = ExplicitFalse(form[1][1])
    /\ Len(response[1]) = 2
    /\ response[1] = response[2]

(* C8: the score is a function of the seven fields only: two requests with *)
(* identical fields get identical responses, whatever other requests ran   *)
(* before, between or beside them.                                         *)
C8_SameFieldsSameScore ==
    \A p, q \in Requests :
        (Done(p) /\ Done(q) /\ form[p] = form[q]) => response[p] = response[q]

C8_Witness ==
    /\ Done(1) /\ Done(2)
    /\ form[1] = form[2]
    /\ response[1] = <<200, 6>>
    /\ response[2] = <<200, 6>>
    /\ pc[3] = "L113"
    /\ form[3] # form[1]

(* C9: under every interleaving each request has, at every step, the       *)
(* locals and the response it has when run alone on its own form: no       *)
(* request's age points or score is bound or rebound by another.           *)
C9_AsIfAlone ==
    \A p \in Requests :
        /\ (pc[p] = "idle" \/ pc[p] = "L96" \/ data[p] = <<>>)
               => age_points[p] = <<>> /\ score[p] = <<>>
        /\ (pc[p] = "L104")
               => age_points[p] = <<Tier(form[p][1].age.val)>> /\ score[p] = <<>>
        /\ (pc[p] = "L113" \/ (Done(p) /\ data[p] # <<>>))
               => /\ age_points[p] = <<Tier(form[p][1].age.val)>>
                  /\ score[p] = <<ExpectedScore(form[p][1])>>
        /\ Done(p) =>
               response[p] =
                   IF AgeInRange(form[p][1]) /\ SexIsLiteral(form[p][1])
                       /\ ExplicitOrOmitted(form[p][1])
                   THEN <<200, ExpectedScore(form[p][1])>>
                   ELSE <<422>>

C9_Witness ==
    /\ pc[1] = "L113" /\ form[1] = <<Scenario80>> /\ score[1] = <<6>>
    /\ pc[2] = "L104" /\ form[2] = <<Scenario70>> /\ age_points[2] = <<1>>
    /\ Done(3) /\ form[3] = <<Scenario30>> /\ response[3] = <<200, 0>>

(* C10: the score is monotone in every risk input: with the same sex and   *)
(* factors a greater age never scores less, and turning one factor from    *)
(* false (or omitted) to true, all else equal, raises the score by exactly *)
(* that factor's weight, 2 for stroke/TIA and 1 for each other.            *)
C10_Monotone ==
    \A p, q \in Requests :
        (Done(p) /\ Done(q) /\ Len(response[p]) = 2 /\ Len(response[q]) = 2)
        => LET f == form[p][1]
               g == form[q][1]
           IN  /\ (/\ f.biological_sex = g.biological_sex
                   /\ \A b \in BoolFields : Factor(f, b) = Factor(g, b)
                   /\ f.age.val <= g.age.val)
                      => response[p][2] <= response[q][2]
               /\ \A b \in BoolFields :
                      (~Factor(f, b) /\ g = [f EXCEPT ![b] = "true"])
                      => response[q][2] = response[p][2] + Weight(b)

C10_Witness ==
    /\ Done(1) /\ Done(2)
    /\ form[1][1].stroke_tia = "false"
    /\ form[1][1].hypertension = "true"
    /\ form[2][1] = [form[1][1] EXCEPT !.stroke_tia = "true"]
    /\ Len(response[1]) = 2 /\ Len(response[2]) = 2
    /\ response[2][2] = response[1][2] + 2

====
